---- MODULE Spec2Model ----
(***************************************************************************)
(* A model of the YouTube transcript pipeline: the pure helpers            *)
(* (extract_transcript_passage, fetch_transcript_text's join,              *)
(* extract_video_id, _extract_passage) and the driver main() with its      *)
(* file-presence stage cache.  Texts are sequences of one-character        *)
(* strings, so that slicing, splitting and joining are computed as the     *)
(* Python code computes them.                                              *)
(***************************************************************************)
EXTENDS Integers, Sequences, FiniteSets, TLC

VARIABLES
    fin,        \* argument of the pure function under study
    fout,       \* its result slot: NotCalled, then Returned(value)
    disk,       \* the four stage artifact files of the stem
    pc,         \* where each pipeline run stands in main()
    args,       \* each run's command line and environment
    out,        \* each run's locals passage, corrected, translated, dialogue
    resp,       \* each run's pending LLM response, between the call and the save
    req,        \* history: the last LLM request each run sent
    net,        \* history: the network calls each run attempted
    calls,      \* history: LLM requests each run sent, per stage
    invoked,    \* history: stages whose transformation each run invoked
    written,    \* history: stage artifacts each run wrote
    err,        \* the exception that ended each run, if any
    prev,       \* history: how the previous sequential run ended
    disk0,      \* history: the artifact files as each run found them
    overwritten, \* history: artifacts written over an existing file
    lastWriter, \* history: the run that last wrote each artifact
    reported    \* the output paths each run printed

fvars == <<fin, fout>>

pvars ==
    <<disk, pc, args, out, resp, req, net, calls, invoked, written, err, prev,
      disk0, overwritten, lastWriter, reported>>

vars == <<fvars, pvars>>

NoValue == "none"

\* The result slot of a pure call: empty, or holding the returned value.
NotCalled == [done |-> FALSE]
Returned(v) == [done |-> TRUE, value |-> v]

(***************************************************************************)
(* Bounds of the model.                                                    *)
(***************************************************************************)
MaxLen == 4          \* longest transcript text given to the compactor
MaxBudget == 4       \* largest --passage-chars tried on those texts
MaxEntries == 3      \* longest transcript entry list
MaxEntryLen == 2     \* longest text of one transcript entry
MaxParams == 2       \* most query parameters of a URL
MaxPath == 2         \* longest URL path

(***************************************************************************)
(* The shape of the pipeline's state.                                      *)
(***************************************************************************)
\* Two invocations of main(); sequential runs reuse the first.
Procs == {"A", "B"}

\* The keys of build_output_paths, in the order main() goes through them.
StageSeq == <<"passage", "corrected", "translated", "dialogue">>
Stages == {StageSeq[i] : i \in 1..Len(StageSeq)}
LLMStages == Stages \ {"passage"}
Idx(k) == CHOOSE i \in 1..Len(StageSeq) : StageSeq[i] = k
\* The stage whose output stage k takes as its input.
Pred(k) == StageSeq[Idx(k) - 1]
\* The text locals of main().
Locals == Stages \cup {"transcript_text"}

\* A file: absent, or holding a text.  A local variable: unbound, or a text.
Absent == [exists |-> FALSE]
File(text) == [exists |-> TRUE, text |-> text]
Unbound == [has |-> FALSE]
Bound(text) == [has |-> TRUE, text |-> text]

At(step, stage) == [at |-> step, stage |-> stage]
Idle == At("idle", "none")
NoError == [kind |-> "none", stage |-> "none"]
NoRequest == [sent |-> FALSE]
NoResponse == [shape |-> "none"]
NoArgs == [set |-> FALSE]
NoPaths == [printed |-> FALSE]
NoRun == [outcome |-> "none", stage |-> "none", reported |-> NoPaths]

\* Nothing on disk, no run started.
PipelineIdle ==
    /\ disk = [k \in Stages |-> Absent]
    /\ pc = [p \in Procs |-> Idle]
    /\ args = [p \in Procs |-> NoArgs]
    /\ out = [p \in Procs |-> [k \in Locals |-> Unbound]]
    /\ resp = [p \in Procs |-> NoResponse]
    /\ req = [p \in Procs |-> NoRequest]
    /\ net = [p \in Procs |-> <<>>]
    /\ calls = [p \in Procs |-> [k \in LLMStages |-> 0]]
    /\ invoked = [p \in Procs |-> {}]
    /\ written = [p \in Procs |-> {}]
    /\ err = [p \in Procs |-> NoError]
    /\ prev = NoRun
    /\ disk0 = [p \in Procs |-> [k \in Stages |-> Absent]]
    /\ overwritten = {}
    /\ lastWriter = [k \in Stages |-> "none"]
    /\ reported = [p \in Procs |-> NoPaths]

\* No pure call under study.
NoCall == fin = NoValue /\ fout = NotCalled

(***************************************************************************)
(* Python string primitives on sequences of characters.                    *)
(***************************************************************************)
\* str.isspace() for one character: what str.split() and str.strip() remove.
IsSpace(c) == c \in {" ", "\n", "\t"}

\* s[:n] for any integer n (a negative n counts from the end).
Slice(s, n) ==
    IF n >= 0
    THEN SubSeq(s, 1, IF n < Len(s) THEN n ELSE Len(s))
    ELSE SubSeq(s, 1, IF Len(s) + n > 0 THEN Len(s) + n ELSE 0)

\* s.lstrip(): drop every leading whitespace character.
RECURSIVE LStrip(_)
LStrip(s) ==
    IF s # <<>> /\ IsSpace(Head(s)) THEN LStrip(Tail(s)) ELSE s

\* s.rstrip(): drop every trailing whitespace character.
RECURSIVE RStrip(_)
RStrip(s) ==
    IF s # <<>> /\ IsSpace(s[Len(s)]) THEN RStrip(SubSeq(s, 1, Len(s) - 1)) ELSE s

\* s.strip()
Strip(s) == RStrip(LStrip(s))

\* The first word of s (s starts with a non-space character or is empty).
RECURSIVE FirstWord(_)
FirstWord(s) ==
    IF s = <<>> \/ IsSpace(Head(s)) THEN <<>> ELSE <<Head(s)>> \o FirstWord(Tail(s))

\* s.split(): the maximal runs of non-whitespace characters, in order.
RECURSIVE Split(_)
Split(s) ==
    LET t == LStrip(s)
        w == FirstWord(t)
    IN  IF t = <<>> THEN <<>>
        ELSE <<w>> \o Split(SubSeq(t, Len(w) + 1, Len(t)))

\* sep.join(parts)
RECURSIVE Join(_, _)
Join(sep, parts) ==
    IF parts = <<>> THEN <<>>
    ELSE IF Len(parts) = 1 THEN parts[1]
    ELSE parts[1] \o sep \o Join(sep, Tail(parts))

\* The index of the last " " of s, 0 when it has none.
RECURSIVE LastSpace(_)
LastSpace(s) ==
    IF s = <<>> THEN 0
    ELSE IF s[Len(s)] = " " THEN Len(s)
    ELSE LastSpace(SubSeq(s, 1, Len(s) - 1))

\* s.rsplit(" ", 1)[0]: s up to its last " ", the whole of s when it has none.
RSplitHead(s) ==
    IF LastSpace(s) = 0 THEN s ELSE SubSeq(s, 1, LastSpace(s) - 1)

Ellipsis == <<".", ".", ".">>

\* " ".join(full_text.split())
Compact(full_text) == Join(<<" ">>, Split(full_text))

\* A compactor that cuts at the budget without trimming back to a space.
extract_transcript_passage_cut(full_text, max_chars) ==
    IF Len(Compact(full_text)) <= max_chars
    THEN Compact(full_text)
    ELSE Slice(Compact(full_text), max_chars) \o Ellipsis

extract_transcript_passage(full_text, max_chars) ==
    LET compact == Compact(full_text)
        trimmed == RSplitHead(Slice(compact, max_chars))
    IN  IF Len(compact) <= max_chars THEN compact ELSE trimmed \o Ellipsis

(***************************************************************************)
(* Bounded sets of texts.                                                  *)
(***************************************************************************)
SeqsUpTo(S, n) == UNION {[1..k -> S] : k \in 0..n}

PassageChars == {"a", "b", " ", "\n"}
PassageTexts == SeqsUpTo(PassageChars, MaxLen)
Budgets == (0 - 1)..MaxBudget

(***************************************************************************)
(* The compactor alone: every text and budget, then one call.              *)
(***************************************************************************)
PassageInit ==
    /\ fin \in [full_text : PassageTexts, max_chars : Budgets]
    /\ fout = NotCalled
    /\ PipelineIdle

CallExtractPassage ==
    /\ fout = NotCalled
    /\ fout' = Returned(extract_transcript_passage(fin.full_text, fin.max_chars))
    /\ UNCHANGED <<fin, pvars>>

PassageNext == CallExtractPassage

SpecPassage == PassageInit /\ [][PassageNext]_vars

(***************************************************************************)
(* C4.  Passage invariant.                                                 *)
(***************************************************************************)
PassageCompact == Compact(fin.full_text)
PassageTruncated == Len(PassageCompact) > fin.max_chars
PassageWindow == Slice(PassageCompact, fin.max_chars)
PassageResult == fout.value
PassageBody == SubSeq(PassageResult, 1, Len(PassageResult) - 3)
EndsWithEllipsis(s) == Len(s) >= 3 /\ SubSeq(s, Len(s) - 2, Len(s)) = Ellipsis
HasSpace(s) == \E i \in 1..Len(s) : s[i] = " "
\* Keeping the first n characters of s ends on a whole word.
WordBoundary(s, n) ==
    \/ n = 0
    \/ n = Len(s)
    \/ n < Len(s) /\ s[n] # " " /\ s[n + 1] = " "

\* C4 as claimed: for every text and every positive budget the result is
\* no longer than the budget, and a truncated result is "..." appended to a
\* prefix of the compacted text that ends at a word boundary.
C4_PassageWithinBudget ==
    (fout.done /\ fin.max_chars >= 1) =>
        /\ Len(PassageResult) <= fin.max_chars
        /\ PassageTruncated =>
            /\ EndsWithEllipsis(PassageResult)
            /\ PassageBody = Slice(PassageCompact, Len(PassageBody))
            /\ WordBoundary(PassageCompact, Len(PassageBody))

\* C4 as amended: for every text and every non-negative budget, an untruncated
\* result is the compacted text itself (length <= budget); a truncated result
\* is "..." appended to a prefix of the compacted text of at most `budget`
\* characters (so its length is at most budget + 3, and may exceed the
\* budget); when the first `budget` characters hold a space the prefix stops
\* right before the last such space, on a word boundary, and when they hold
\* none the prefix is all `budget` characters, which may cut a word.
C4_PassageAmended ==
    (fout.done /\ fin.max_chars >= 0) =>
        /\ ~PassageTruncated => (PassageResult = PassageCompact /\ Len(PassageResult) <= fin.max_chars)
        /\ PassageTruncated =>
            /\ EndsWithEllipsis(PassageResult)
            /\ Len(PassageResult) <= fin.max_chars + 3
            /\ PassageBody = Slice(PassageCompact, Len(PassageBody))
            /\ HasSpace(PassageWindow) =>
                /\ Len(PassageBody) < fin.max_chars
                /\ PassageCompact[Len(PassageBody) + 1] = " "
                /\ ~HasSpace(SubSeq(PassageWindow, Len(PassageBody) + 2, Len(PassageWindow)))
                /\ WordBoundary(PassageCompact, Len(PassageBody))
            /\ ~HasSpace(PassageWindow) => PassageBody = PassageWindow

\* A truncation that trims back to a space and still overruns the budget.
C4_Witness ==
    /\ fout.done
    /\ fin.max_chars >= 0
    /\ PassageTruncated
    /\ HasSpace(PassageWindow)
    /\ Len(PassageBody) > 0
    /\ Len(PassageResult) > fin.max_chars

(***************************************************************************)
(* fetch_transcript_text: the join of the provider's entries.  An entry    *)
(* is a record: has says whether it holds a "text" key, text is that       *)
(* key's value, a character sequence.                                      *)
(***************************************************************************)
\* entry.get("text", "")
EntryText(entry) == IF entry.has THEN entry.text ELSE <<>>

\* `if entry.get("text")`: the text is present and not the empty string.
EntryKept(entry) == entry.has /\ entry.text # <<>>

\* The generator: strip the text of every entry the filter keeps.
RECURSIVE StrippedTexts(_)
StrippedTexts(entries) ==
    IF entries = <<>> THEN <<>>
    ELSE (IF EntryKept(Head(entries)) THEN <<Strip(EntryText(Head(entries)))>> ELSE <<>>)
         \o StrippedTexts(Tail(entries))

JoinEntries(entries) == Join(<<" ">>, StrippedTexts(entries))

EntryChars == {"a", " "}
Entries ==
    {[has |-> FALSE, text |-> <<>>]}
        \cup [has : {TRUE}, text : SeqsUpTo(EntryChars, MaxEntryLen)]
EntryLists == SeqsUpTo(Entries, MaxEntries)

JoinInit ==
    /\ fin \in EntryLists
    /\ fout = NotCalled
    /\ PipelineIdle

CallJoinEntries ==
    /\ fout = NotCalled
    /\ fout' = Returned(JoinEntries(fin))
    /\ UNCHANGED <<fin, pvars>>

JoinNext == CallJoinEntries

SpecJoin == JoinInit /\ [][JoinNext]_vars

(***************************************************************************)
(* C7.  Transcript join.                                                   *)
(***************************************************************************)
\* The stripped texts of the entries whose stripped text is non-empty.
RECURSIVE NonEmptyStripped(_)
NonEmptyStripped(entries) ==
    IF entries = <<>> THEN <<>>
    ELSE (IF Strip(EntryText(Head(entries))) # <<>>
          THEN <<Strip(EntryText(Head(entries)))>> ELSE <<>>)
         \o NonEmptyStripped(Tail(entries))

\* C7: the result is the stripped texts, in order, of the entries whose
\* stripped text is non-empty, joined by exactly one space; an entry whose
\* text is missing, empty or whitespace-only contributes nothing.
C7_JoinNonEmptyStripped ==
    fout.done => fout.value = Join(<<" ">>, NonEmptyStripped(fin))

(***************************************************************************)
(* extract_video_id.  A URL is given by what urlparse splits it into: the  *)
(* host as written, the path (a character sequence) and the query (a       *)
(* sequence of key/value fields, a value being a character sequence).      *)
(***************************************************************************)
NoHost == "<no host>"

\* str.lower() on the hosts of the model.
Lower(host) ==
    CASE host = "YouTu.Be" -> "youtu.be"
      [] host = "WWW.YouTube.com" -> "www.youtube.com"
      [] OTHER -> host

\* urlparse(url).hostname: the host in lower case (None when there is none).
Hostname(url) == Lower(url.host)

\* path.lstrip("/"): drop every leading slash.
RECURSIVE LStripSlash(_)
LStripSlash(path) ==
    IF path # <<>> /\ Head(path) = "/" THEN LStripSlash(Tail(path)) ELSE path

\* The values of `key` in the query, in order, blank values dropped
\* (parse_qs's keep_blank_values is off).
RECURSIVE ValuesOf(_, _)
ValuesOf(query, key) ==
    IF query = <<>> THEN <<>>
    ELSE (IF Head(query).key = key /\ Head(query).value # <<>>
          THEN <<Head(query).value>> ELSE <<>>)
         \o ValuesOf(Tail(query), key)

\* parse_qs(query): each key with a non-blank value, mapped to those values.
parse_qs(query) ==
    [key \in {query[i].key : i \in {j \in 1..Len(query) : query[j].value # <<>>}}
        |-> ValuesOf(query, key)]

UnsupportedURL == [ok |-> FALSE, error |-> "ValueError"]
VideoId(id) == [ok |-> TRUE, id |-> id]

ShortHosts == {"youtu.be"}
WatchHosts == {"www.youtube.com", "youtube.com", "m.youtube.com"}

\* A matcher that accepts every host under youtube.com.
extract_video_id_any_subdomain(url) ==
    IF Hostname(url) \in ShortHosts
    THEN VideoId(LStripSlash(url.path))
    ELSE IF /\ Hostname(url) \in WatchHosts \cup {"music.youtube.com"}
            /\ "v" \in DOMAIN parse_qs(url.query)
         THEN VideoId(parse_qs(url.query)["v"][1])
         ELSE UnsupportedURL

extract_video_id(url) ==
    IF Hostname(url) \in ShortHosts
    THEN VideoId(LStripSlash(url.path))
    ELSE IF Hostname(url) \in WatchHosts /\ "v" \in DOMAIN parse_qs(url.query)
         THEN VideoId(parse_qs(url.query)["v"][1])
         ELSE UnsupportedURL

UrlHosts ==
    {"youtu.be", "YouTu.Be", "www.youtube.com", "WWW.YouTube.com", "youtube.com",
     "m.youtube.com", "music.youtube.com", "example.com", NoHost}
UrlPaths == SeqsUpTo({"/", "x"}, MaxPath)
UrlFields == [key : {"v", "t"}, value : {<<>>, <<"A">>, <<"B">>}]
UrlQueries == SeqsUpTo(UrlFields, MaxParams)
Urls == [host : UrlHosts, path : UrlPaths, query : UrlQueries]

UrlInit ==
    /\ fin \in Urls
    /\ fout = NotCalled
    /\ PipelineIdle

CallExtractVideoId ==
    /\ fout = NotCalled
    /\ fout' = Returned(extract_video_id(fin))
    /\ UNCHANGED <<fin, pvars>>

UrlNext == CallExtractVideoId

SpecUrl == UrlInit /\ [][UrlNext]_vars

(***************************************************************************)
(* C8.  Video ID extraction uses an exact host allow-list.                 *)
(***************************************************************************)
\* The query holds a field named key, whatever its value.
HasParam(query, key) == \E i \in 1..Len(query) : query[i].key = key
\* The value of the first field named key whose value is not blank (the
\* first value parse_qs lists for key).
FirstValue(query, key) ==
    query[CHOOSE i \in 1..Len(query) :
        /\ query[i].key = key /\ query[i].value # <<>>
        /\ \A j \in 1..(i - 1) : ~(query[j].key = key /\ query[j].value # <<>>)].value

\* C8: an ID is returned only when the host is youtu.be (the ID is the path
\* without its leading slashes) or the host is one of www.youtube.com,
\* youtube.com, m.youtube.com and the query has a `v` parameter (the ID is
\* the first value of `v`); every other host, and every watch-host URL
\* without a `v` parameter, fails with the unsupported-URL error, no ID.
C8_HostAllowList ==
    fout.done =>
        /\ fout.value.ok =>
            \/ Hostname(fin) = "youtu.be"
            \/ Hostname(fin) \in WatchHosts /\ HasParam(fin.query, "v")
        /\ Hostname(fin) \notin {"youtu.be"} \cup WatchHosts =>
            fout.value = UnsupportedURL
        /\ (Hostname(fin) \in WatchHosts /\ ~HasParam(fin.query, "v")) =>
            fout.value = UnsupportedURL
        /\ Hostname(fin) = "youtu.be" =>
            fout.value = VideoId(LStripSlash(fin.path))
        /\ (fout.value.ok /\ Hostname(fin) \in WatchHosts) =>
            fout.value.id = FirstValue(fin.query, "v")

\* A watch URL with two `v` values and another parameter before them: the
\* ID is the first `v`.
C8_Witness ==
    /\ fout.done
    /\ Hostname(fin) \in WatchHosts
    /\ Len(fin.query) >= 2
    /\ fin.query[1].key = "v" /\ fin.query[2].key = "v"
    /\ fin.query[1].value # <<>> /\ fin.query[2].value # fin.query[1].value
    /\ fout.value = VideoId(fin.query[1].value)

(***************************************************************************)
(* The LLM invocation adapter.  A payload is the agent's dict, a sequence  *)
(* of key/value fields in source order; a literal string of the source is  *)
(* one token of a text.                                                    *)
(***************************************************************************)
Field(key, value) == [key |-> key, value |-> value]

\* user_payload.get(key), for the string values the agents put there.
PayloadGet(payload, key) ==
    IF \E i \in 1..Len(payload) : payload[i].key = key
    THEN Bound(payload[CHOOSE i \in 1..Len(payload) : payload[i].key = key].value)
    ELSE Unbound

\* json.dumps of one character of a string.
JsonEscape(c) ==
    CASE c = "\n" -> "\\n"
      [] c = "\t" -> "\\t"
      [] c = "\"" -> "\\\""
      [] OTHER -> c

JsonString(text) == <<"\"">> \o [i \in 1..Len(text) |-> JsonEscape(text[i])] \o <<"\"">>

\* The keys a payload may hold, in sorted order (sort_keys=True).
SortedKeys ==
    <<"content", "instructions", "passage", "target_language", "task", "text",
      "transcript">>

\* "key":"value" for each key of the payload from the n-th sorted key on,
\* separated by "," (separators=(",", ":")).
RECURSIVE JsonMembers(_, _)
JsonMembers(payload, n) ==
    IF n > Len(SortedKeys) THEN <<>>
    ELSE LET here == PayloadGet(payload, SortedKeys[n])
             rest == JsonMembers(payload, n + 1)
         IN  IF ~here.has THEN rest
             ELSE JsonString(<<SortedKeys[n]>>) \o <<":">> \o JsonString(here.text)
                  \o (IF rest = <<>> THEN <<>> ELSE <<",">> \o rest)

_stable_json_dumps(payload) == <<"{">> \o JsonMembers(payload, 1) \o <<"}">>

\* `isinstance(value, str) and value.strip()` for payload.get(key).
Usable(payload, key) ==
    PayloadGet(payload, key).has /\ Strip(PayloadGet(payload, key).text) # <<>>

PassageKeys == <<"transcript", "passage", "text", "content">>

\* An extractor that takes any string value, blank or not.
_extract_passage_any_string(user_payload) ==
    IF \E i \in 1..Len(PassageKeys) : PayloadGet(user_payload, PassageKeys[i]).has
    THEN PayloadGet(user_payload,
            PassageKeys[CHOOSE i \in 1..Len(PassageKeys) :
                /\ PayloadGet(user_payload, PassageKeys[i]).has
                /\ \A j \in 1..(i - 1) : ~PayloadGet(user_payload, PassageKeys[j]).has]).text
    ELSE _stable_json_dumps(user_payload)

_extract_passage(user_payload) ==
    IF \E i \in 1..Len(PassageKeys) : Usable(user_payload, PassageKeys[i])
    THEN PayloadGet(user_payload,
            PassageKeys[CHOOSE i \in 1..Len(PassageKeys) :
                /\ Usable(user_payload, PassageKeys[i])
                /\ \A j \in 1..(i - 1) : ~Usable(user_payload, PassageKeys[j])]).text
    ELSE _stable_json_dumps(user_payload)

\* alias_map.get(model_name, model_name)
alias_map(model_name) ==
    CASE model_name \in {"gpt40", "gpt-40", "gpt4o"} -> "gpt-4o"
      [] model_name \in {"gpt4o-mini", "gpt-4o-mini"} -> "gpt-4o-mini"
      [] model_name \in {"gpt5-low", "gpt5-medium", "gpt5-high"} -> "gpt-5"
      [] model_name \in {"gpt5-nano", "gpt-5-nano"} -> "gpt-5-nano"
      [] model_name = "gpt5-1" -> "gpt-5-1"
      [] OTHER -> model_name

UserPrefix == <<"the passage is:\n">>

\* The request invoke_llm sends: the model and the two messages.
LLMRequest(stage, system_prompt, user_payload, model_name) ==
    [sent |-> TRUE,
     stage |-> stage,
     model |-> alias_map(model_name),
     system |-> system_prompt,
     user |-> UserPrefix \o _extract_passage(user_payload),
     payload |-> user_payload]

\* A check that lets a run without a credential through.
CredentialNeverMissing(a) == FALSE

\* `if not openai_api_key`
CredentialMissing(a) == ~a.has_key

(***************************************************************************)
(* The agents: each stage's prompt name and payload.                       *)
(***************************************************************************)
prompt_name(stage) ==
    CASE stage = "corrected" -> "system_modify"
      [] stage = "translated" -> "system_translate"
      [] stage = "dialogue" -> "system_dialogue"

AgentPayload(stage, transcript) ==
    CASE stage = "corrected" ->
            <<Field("task", <<"correct_transcript">>),
              Field("instructions",
                    <<"Fix errors but keep meaning and all important points.">>),
              Field("transcript", transcript)>>
      [] stage = "translated" ->
            <<Field("task", <<"translate_transcript">>),
              Field("target_language", <<"Turkish (Istanbul)">>),
              Field("transcript", transcript)>>
      [] stage = "dialogue" ->
            <<Field("task", <<"dialogue_conversion">>),
              Field("transcript", transcript)>>

(***************************************************************************)
(* The driver main().                                                      *)
(***************************************************************************)
DefaultPassageChars == 600000
TightBudget == 1     \* a --passage-chars small enough to truncate

\* The --url default, and a URL of another site.
DefaultUrl ==
    [host |-> "www.youtube.com", path |-> <<"/", "watch">>,
     query |-> <<Field("v", <<"TVUibwoVXZc">>)>>]
OtherSiteUrl ==
    [host |-> "example.com", path |-> <<"/", "watch">>,
     query |-> <<Field("v", <<"ABC">>)>>]
RunUrls == {DefaultUrl, OtherSiteUrl}
RunModels == {"gpt5-low", "gpt-4o-mini"}
RunBudgets == {TightBudget, DefaultPassageChars}

\* What the transcript provider may return, and what the LLM may answer.
TextEntry(text) == [has |-> TRUE, text |-> text]
RunEntryLists == {<<>>, <<TextEntry(<<"a">>), TextEntry(<<"b">>)>>}
LLMTexts == {<<" ">>, <<"x">>}
StrResponse(text) == [shape |-> "str", text |-> text]
ListResponse(items) == [shape |-> "list", items |-> items]
Responses ==
    {StrResponse(t) : t \in LLMTexts}
        \cup {ListResponse(<<Bound(<<"x">>), Bound(<<" ">>)>>),
              ListResponse(<<>>),
              ListResponse(<<Unbound>>)}

\* Path(transcript_path).stem: one title, so one stem.
Stem == "video"

build_output_paths(stem) ==
    [passage |-> <<stem, "_passage.txt">>,
     corrected |-> <<stem, "_corrected.txt">>,
     translated |-> <<stem, "_tr_istanbul.txt">>,
     dialogue |-> <<stem, "_dialogue.txt">>]

\* A driver that never finds a cached artifact.
CacheHitNever(file) == FALSE

\* output_paths[k].exists()
CacheHit(file) == file.exists

\* A save that leaves an existing file as it is.
save_text_if_absent(d, k, text) == IF d[k].exists THEN d ELSE [d EXCEPT ![k] = File(text)]

\* path.write_text(text): the file holds exactly the text, whatever it held.
save_text(d, k, text) == [d EXCEPT ![k] = File(text)]

\* `type(x) == list` and x[0]["text"] raises (no element, or no "text").
BadResponse(r) ==
    r.shape = "list" /\ (r.items = <<>> \/ ~r.items[1].has)

\* The text main() saves for a response: element zero's text of a list.
SavedText(r) == IF r.shape = "list" THEN r.items[1].text ELSE r.text

\* A driver that saves the list's text and keeps the list in its local.
CarriedRaw(r) == IF r.shape = "list" THEN <<"<list>">> ELSE r.text

\* The text the local variable holds after the save.
CarriedText(r) == IF r.shape = "list" THEN r.items[1].text ELSE r.text

\* A save that has created its file when building the text raises.
failed_save_truncates(d, k) == [d EXCEPT ![k] = File(<<>>)]

\* The files after x[0]["text"] raised: the argument is evaluated before
\* save_text is entered, so nothing was written.
failed_save(d, k) == d

\* A load that strips the text, as load_prompt does.
load_text_stripped(file) == Strip(file.text)

load_text(file) == file.text

\* Where main() goes after stage k.
AfterStage(k) ==
    IF Idx(k) = Len(StageSeq) THEN At("report", "none")
    ELSE At("check", StageSeq[Idx(k) + 1])

Abort(p, kind, stage) ==
    /\ pc' = [pc EXCEPT ![p] = At("aborted", stage)]
    /\ err' = [err EXCEPT ![p] = [kind |-> kind, stage |-> stage]]

\* How the run of p that is over ended.
Outcome(p) ==
    [outcome |-> IF pc[p].at = "idle" THEN "none" ELSE pc[p].at,
     stage |-> err[p].stage,
     reported |-> reported[p]]

\* A new process runs main() with these arguments and this environment.
Start(p, url, model, max_chars, has_key) ==
    /\ pc[p].at \in {"idle", "done", "aborted"}
    /\ pc' = [pc EXCEPT ![p] = At("download", "none")]
    /\ args' = [args EXCEPT ![p] =
                    [set |-> TRUE, url |-> url, model |-> model,
                     max_chars |-> max_chars, has_key |-> has_key]]
    /\ out' = [out EXCEPT ![p] = [k \in Locals |-> Unbound]]
    /\ resp' = [resp EXCEPT ![p] = NoResponse]
    /\ req' = [req EXCEPT ![p] = NoRequest]
    /\ net' = [net EXCEPT ![p] = <<>>]
    /\ calls' = [calls EXCEPT ![p] = [k \in LLMStages |-> 0]]
    /\ invoked' = [invoked EXCEPT ![p] = {}]
    /\ written' = [written EXCEPT ![p] = {}]
    /\ err' = [err EXCEPT ![p] = NoError]
    /\ reported' = [reported EXCEPT ![p] = NoPaths]
    /\ prev' = Outcome(p)
    /\ disk0' = [disk0 EXCEPT ![p] = disk]
    /\ UNCHANGED <<disk, overwritten, lastWriter, fvars>>

\* Sequential use: a run starts when no other is under way.
SeqStart ==
    /\ \A q \in Procs : pc[q].at \in {"idle", "done", "aborted"}
    /\ \E url \in RunUrls, model \in RunModels, max_chars \in RunBudgets,
          has_key \in BOOLEAN :
            Start("A", url, model, max_chars, has_key)

\* Concurrent use: each of two processes runs main() once, with the
\* command line's defaults.
ConcStart ==
    \E p \in Procs :
        /\ pc[p].at = "idle"
        /\ Start(p, DefaultUrl, "gpt5-low", DefaultPassageChars, TRUE)

\* download_video: a network call that may fail.
Download(p) ==
    /\ pc[p].at = "download"
    /\ net' = [net EXCEPT ![p] = Append(@, "download")]
    /\ \/ Abort(p, "DownloadError", "fetch")
       \/ pc' = [pc EXCEPT ![p] = At("transcript", "none")] /\ UNCHANGED err
    /\ UNCHANGED <<disk, args, out, resp, req, calls, invoked, written, prev,
                   disk0, overwritten, lastWriter, reported, fvars>>

\* fetch_transcript_text: the ID from the URL, then the provider's entries
\* (a network call that may fail), joined.
FetchTranscript(p) ==
    /\ pc[p].at = "transcript"
    /\ IF ~extract_video_id(args[p].url).ok
       THEN /\ Abort(p, "UnsupportedURL", "fetch")
            /\ UNCHANGED <<net, out>>
       ELSE /\ net' = [net EXCEPT ![p] = Append(@, "transcript")]
            /\ \/ Abort(p, "TranscriptError", "fetch") /\ UNCHANGED out
               \/ \E entries \in RunEntryLists :
                    /\ out' = [out EXCEPT ![p]["transcript_text"] =
                                    Bound(JoinEntries(entries))]
                    /\ pc' = [pc EXCEPT ![p] = At("compact", "passage")]
                    /\ UNCHANGED err
    /\ UNCHANGED <<disk, args, resp, req, calls, invoked, written, prev, disk0,
                   overwritten, lastWriter, reported, fvars>>

\* Line 79: the passage is computed whether or not it is cached.
CompactPassage(p) ==
    /\ pc[p].at = "compact"
    /\ out' = [out EXCEPT ![p]["passage"] =
                    Bound(extract_transcript_passage(out[p]["transcript_text"].text,
                                                     args[p].max_chars))]
    /\ invoked' = [invoked EXCEPT ![p] = @ \cup {"passage"}]
    /\ pc' = [pc EXCEPT ![p] = At("check", "passage")]
    /\ UNCHANGED <<disk, args, resp, req, net, calls, written, err, prev, disk0,
                   overwritten, lastWriter, reported, fvars>>

\* `if output_paths[k].exists(): x = load_text(...)`, else on to the stage.
CheckStage(p, k) ==
    /\ pc[p] = At("check", k)
    /\ IF CacheHit(disk[k])
       THEN /\ out' = [out EXCEPT ![p][k] = Bound(load_text(disk[k]))]
            /\ pc' = [pc EXCEPT ![p] = AfterStage(k)]
       ELSE /\ pc' = [pc EXCEPT ![p] =
                        IF k = "passage" THEN At("write", k) ELSE At("agent", k)]
            /\ UNCHANGED out
    /\ UNCHANGED <<disk, args, resp, req, net, calls, invoked, written, err, prev,
                   disk0, overwritten, lastWriter, reported, fvars>>

\* save_text(output_paths["passage"], passage)
WritePassage(p) ==
    /\ pc[p] = At("write", "passage")
    /\ disk' = save_text(disk, "passage", out[p]["passage"].text)
    /\ written' = [written EXCEPT ![p] = @ \cup {"passage"}]
    /\ overwritten' = IF disk["passage"].exists THEN overwritten \cup {"passage"}
                      ELSE overwritten
    /\ lastWriter' = [lastWriter EXCEPT !["passage"] = p]
    /\ pc' = [pc EXCEPT ![p] = AfterStage("passage")]
    /\ UNCHANGED <<args, out, resp, req, net, calls, invoked, err, prev, disk0,
                   reported, fvars>>

\* agent.run(previous, model_name): load_prompt, then invoke_llm, which
\* requires the credential, sends the request and returns the content.
RunAgent(p, k) ==
    /\ pc[p] = At("agent", k)
    /\ invoked' = [invoked EXCEPT ![p] = @ \cup {k}]
    /\ \/ /\ Abort(p, "PromptNotFound", k)
          /\ UNCHANGED <<req, net, calls, resp>>
       \/ /\ CredentialMissing(args[p])
          /\ Abort(p, "MissingCredential", k)
          /\ UNCHANGED <<req, net, calls, resp>>
       \/ /\ ~CredentialMissing(args[p])
          /\ req' = [req EXCEPT ![p] =
                        LLMRequest(k, prompt_name(k),
                                   AgentPayload(k, out[p][Pred(k)].text),
                                   args[p].model)]
          /\ net' = [net EXCEPT ![p] = Append(@, "llm")]
          /\ calls' = [calls EXCEPT ![p][k] = @ + 1]
          /\ \/ Abort(p, "ProviderError", k) /\ UNCHANGED resp
             \/ \E r \in Responses :
                    /\ resp' = [resp EXCEPT ![p] = r]
                    /\ pc' = [pc EXCEPT ![p] = At("write", k)]
                    /\ UNCHANGED err
    /\ UNCHANGED <<disk, args, out, written, prev, disk0, overwritten,
                   lastWriter, reported, fvars>>

\* Lines 92-96: a list answer is reduced to element zero's text (which
\* raises when there is none), the text is saved and kept.
WriteStage(p, k) ==
    /\ pc[p] = At("write", k)
    /\ k \in LLMStages
    /\ resp' = [resp EXCEPT ![p] = NoResponse]
    /\ IF BadResponse(resp[p])
       THEN /\ Abort(p, "BadResponse", k)
            /\ disk' = failed_save(disk, k)
            /\ UNCHANGED <<out, written, overwritten, lastWriter>>
       ELSE /\ disk' = save_text(disk, k, SavedText(resp[p]))
            /\ out' = [out EXCEPT ![p][k] = Bound(CarriedText(resp[p]))]
            /\ written' = [written EXCEPT ![p] = @ \cup {k}]
            /\ overwritten' = IF disk[k].exists THEN overwritten \cup {k}
                              ELSE overwritten
            /\ lastWriter' = [lastWriter EXCEPT ![k] = p]
            /\ pc' = [pc EXCEPT ![p] = AfterStage(k)]
            /\ UNCHANGED err
    /\ UNCHANGED <<args, req, net, calls, invoked, prev, disk0, reported, fvars>>

\* The six print() lines.
Report(p) ==
    /\ pc[p].at = "report"
    /\ reported' = [reported EXCEPT ![p] =
                        [printed |-> TRUE, paths |-> build_output_paths(Stem)]]
    /\ pc' = [pc EXCEPT ![p] = At("done", "none")]
    /\ UNCHANGED <<disk, args, out, resp, req, net, calls, invoked, written, err,
                   prev, disk0, overwritten, lastWriter, fvars>>

Step(p) ==
    \/ Download(p)
    \/ FetchTranscript(p)
    \/ CompactPassage(p)
    \/ \E k \in Stages : CheckStage(p, k)
    \/ WritePassage(p)
    \/ \E k \in LLMStages : RunAgent(p, k)
    \/ \E k \in LLMStages : WriteStage(p, k)
    \/ Report(p)

Init == PipelineIdle /\ NoCall

Next == SeqStart \/ \E p \in Procs : Step(p)

\* Runs of main() one after another on one stem.
Spec == Init /\ [][Next]_vars

ConcNext == ConcStart \/ \E p \in Procs : Step(p)

\* Two runs of main() on one stem, their steps interleaved.
SpecConc == Init /\ [][ConcNext]_vars

(***************************************************************************)
(* Vocabulary of the driver's properties.                                  *)
(***************************************************************************)
\* The state of section 4.6 a program point belongs to, numbered in order:
\* Fetch, Passage, Correct, Translate, Dialogue, Done.
Phase(c) ==
    CASE c.at \in {"download", "transcript"} -> 0
      [] c.at = "compact" -> 1
      [] c.at \in {"check", "agent", "write"} -> Idx(c.stage)
      [] c.at \in {"report", "done"} -> Len(StageSeq) + 1

Running(p) == pc[p].at \notin {"idle", "done", "aborted"}

\* The run of p has left stage k behind it: it stands in a later phase, or
\* was aborted in one.
PassedStage(p, k) ==
    \/ Running(p) /\ Phase(pc[p]) > Idx(k)
    \/ pc[p].at = "done"
    \/ pc[p].at = "aborted" /\ err[p].stage \in Stages /\ Idx(err[p].stage) > Idx(k)

LLMCallsIn(p) == {k \in LLMStages : calls[p][k] > 0}
NetHas(p, kind) == \E i \in 1..Len(net[p]) : net[p][i] = kind
TranscriptSent(p) == PayloadGet(req[p].payload, "transcript")

(***************************************************************************)
(* C1.  Stage caching idempotence.                                         *)
(***************************************************************************)
\* C1: a run that follows a run that reached Done sends no LLM request,
\* writes no artifact, leaves every artifact as it found it, and when it
\* reaches Done it prints the same four output paths.
C1_CachedRerun ==
    prev.outcome = "done" =>
        /\ LLMCallsIn("A") = {}
        /\ ~NetHas("A", "llm")
        /\ written["A"] = {}
        /\ \A k \in Stages : disk[k].exists /\ disk[k] = disk0["A"][k]
        /\ pc["A"].at = "done" =>
            /\ reported["A"] = prev.reported
            /\ \A k \in Stages : out["A"][k] = Bound(disk[k].text)

\* The second run has reached Done.
C1_Witness ==
    /\ prev.outcome = "done"
    /\ pc["A"].at = "done"
    /\ reported["A"].printed

(***************************************************************************)
(* C2.  Stage artifact immutability.                                       *)
(***************************************************************************)
\* An artifact that existed when the run of p started is as it was, was not
\* written by the run, and once the run is past the stage the stage's
\* output is the text read from it.
ReusedVerbatim(p, k) ==
    /\ disk[k] = disk0[p][k]
    /\ k \notin written[p]
    /\ PassedStage(p, k) => out[p][k] = Bound(disk[k].text)

\* C2 as claimed: an artifact that exists is never written again, and a run
\* that finds it never invokes that stage's transformation (passage,
\* corrected, translated or dialogue): it only reads it and uses the text.
C2_NeverRecomputed ==
    /\ overwritten = {}
    /\ \A p \in Procs, k \in Stages :
        disk0[p][k].exists => (ReusedVerbatim(p, k) /\ k \notin invoked[p])

\* C2 as amended: an artifact that exists is never written again; a run that
\* finds it reads it and uses the text as the stage's output; it never
\* invokes the LLM agent of a corrected, translated or dialogue artifact it
\* finds, but it does compute the passage (line 79) before it looks for the
\* passage artifact, and discards that result when the artifact exists.
C2_NeverRewritten ==
    /\ overwritten = {}
    /\ \A p \in Procs, k \in Stages :
        disk0[p][k].exists =>
            /\ ReusedVerbatim(p, k)
            /\ k \in LLMStages => (k \notin invoked[p] /\ calls[p][k] = 0)
            /\ (k = "passage" /\ PassedStage(p, k)) => k \in invoked[p]

\* A run with another model and budget found passage and corrected, a
\* whitespace-only one, and went on to write the rest.
C2_Witness ==
    /\ pc["A"].at = "done"
    /\ disk0["A"]["corrected"] = File(<<" ">>)
    /\ ~disk0["A"]["translated"].exists
    /\ "dialogue" \in written["A"]
    /\ args["A"].model = "gpt-4o-mini"
    /\ args["A"].max_chars = TightBudget
    /\ disk["passage"] = File(<<"a", " ", "b">>)

(***************************************************************************)
(* C3.  No rollback and resumability.                                      *)
(***************************************************************************)
\* C3: a run aborted at LLM stage k wrote no artifact for k or a later
\* stage, which are as the run found them, k's being absent; the earlier
\* artifacts exist, those the run found unchanged; and the run after it
\* sends LLM requests only for k and later stages whose artifacts it found
\* absent, one for k itself once it is past k.
C3_NoRollback ==
    /\ overwritten = {}
    /\ \A p \in Procs :
        (pc[p].at = "aborted" /\ err[p].stage \in LLMStages) =>
            /\ ~disk[err[p].stage].exists
            /\ \A j \in Stages :
                /\ Idx(j) >= Idx(err[p].stage) =>
                    (j \notin written[p] /\ disk[j] = disk0[p][j])
                /\ Idx(j) < Idx(err[p].stage) =>
                    /\ disk[j].exists
                    /\ disk0[p][j].exists => disk[j] = disk0[p][j]
    /\ (prev.outcome = "aborted" /\ prev.stage \in LLMStages) =>
        /\ \A j \in LLMCallsIn("A") :
            Idx(j) >= Idx(prev.stage) /\ ~disk0["A"][j].exists
        /\ \A j \in Stages : Idx(j) < Idx(prev.stage) => disk0["A"][j].exists
        /\ PassedStage("A", prev.stage) => calls["A"][prev.stage] = 1

\* After a run aborted at the translation, the next run translated and made
\* the dialogue without correcting again.
C3_Witness ==
    /\ prev.outcome = "aborted"
    /\ prev.stage = "translated"
    /\ pc["A"].at = "done"
    /\ LLMCallsIn("A") = {"translated", "dialogue"}

(***************************************************************************)
(* C5.  Configuration errors and network calls.                            *)
(***************************************************************************)
ConfigErrors == {"MissingCredential", "PromptNotFound"}

\* C5 as claimed: a run that ends with a missing credential or a missing
\* prompt template has attempted no network call.
C5_ConfigBeforeNetwork ==
    \A p \in Procs : err[p].kind \in ConfigErrors => net[p] = <<>>

\* C5 as amended: a missing credential or prompt template is raised at the
\* first uncached LLM stage that needs it, before that stage's LLM request
\* is sent and before its artifact is written, and no LLM request is ever
\* sent without a credential; but it is raised after the run's video
\* download and transcript fetch, which are its first two network calls.
C5_ConfigBeforeStageRequest ==
    \A p \in Procs :
        /\ err[p].kind \in ConfigErrors =>
            /\ err[p].stage \in LLMStages
            /\ calls[p][err[p].stage] = 0
            /\ err[p].stage \notin written[p]
            /\ ~disk0[p][err[p].stage].exists
            /\ Len(net[p]) >= 2
            /\ net[p][1] = "download" /\ net[p][2] = "transcript"
        /\ (args[p].set /\ ~args[p].has_key) => (LLMCallsIn(p) = {} /\ ~NetHas(p, "llm"))

\* The translation prompt was found missing after the run had downloaded
\* the video, fetched the transcript and had the transcript corrected.
C5_Witness ==
    /\ err["A"] = [kind |-> "PromptNotFound", stage |-> "translated"]
    /\ net["A"] = <<"download", "transcript", "llm">>

(***************************************************************************)
(* C6.  What is transmitted.                                               *)
(***************************************************************************)
\* The request's `transcript` is the previous stage's output text.
CarriesPreviousOutput(p) == TranscriptSent(p) = out[p][Pred(req[p].stage)]
\* A token of the payload's other values shows in the user message.
LeaksPayload(p) ==
    \E i \in 1..Len(req[p].user), j \in 1..Len(req[p].payload) :
        /\ req[p].payload[j].key # "transcript"
        /\ req[p].payload[j].value = <<req[p].user[i]>>

\* C6 as claimed: for every previous-stage output, blank ones included, the
\* user message is the prefix followed by that text, and nothing else of
\* the payload.
C6_OnlyTranscriptSent ==
    \A p \in Procs :
        req[p].sent =>
            /\ CarriesPreviousOutput(p)
            /\ req[p].user = UserPrefix \o TranscriptSent(p).text
            /\ ~LeaksPayload(p)

\* C6 as amended: when the previous stage's output has a non-whitespace
\* character the user message is the prefix followed by that text and
\* nothing else of the payload; when it is empty or whitespace-only the
\* message is the prefix followed by the sorted compact JSON of the whole
\* payload, task and instructions or target_language included.
C6_TranscriptOrWholePayload ==
    \A p \in Procs :
        req[p].sent =>
            /\ CarriesPreviousOutput(p)
            /\ Strip(TranscriptSent(p).text) # <<>> =>
                /\ req[p].user = UserPrefix \o TranscriptSent(p).text
                /\ ~LeaksPayload(p)
            /\ Strip(TranscriptSent(p).text) = <<>> =>
                /\ req[p].user = UserPrefix \o _stable_json_dumps(req[p].payload)
                /\ LeaksPayload(p)
                /\ Len(req[p].user) > 1 /\ req[p].user[2] = "{"

\* The translation was asked for a whitespace-only corrected text.
C6_Witness ==
    /\ req["A"].sent
    /\ req["A"].stage = "translated"
    /\ TranscriptSent("A") = Bound(<<" ">>)
    /\ req["A"].user =
        <<"the passage is:\n", "{",
          "\"", "target_language", "\"", ":", "\"", "Turkish (Istanbul)", "\"", ",",
          "\"", "task", "\"", ":", "\"", "translate_transcript", "\"", ",",
          "\"", "transcript", "\"", ":", "\"", " ", "\"", "}">>

(***************************************************************************)
(* C9.  Forward data flow through the driver.                              *)
(***************************************************************************)
\* A run stays in its state or moves to the next one (or ends, or is
\* followed by a new run).
ForwardStep ==
    \A p \in Procs :
        (Running(p) /\ pc'[p] # pc[p]) =>
            \/ pc'[p].at = "aborted"
            \/ Phase(pc'[p]) \in {Phase(pc[p]), Phase(pc[p]) + 1}

\* Each LLM stage is requested at most once in a run, with the text its
\* predecessor's artifact holds; at Done the four artifacts exist.
ForwardFlow ==
    \A p \in Procs :
        /\ \A k \in LLMStages : calls[p][k] <= 1
        /\ req[p].sent =>
            /\ disk[Pred(req[p].stage)].exists
            /\ TranscriptSent(p) = Bound(disk[Pred(req[p].stage)].text)
        /\ pc[p].at = "done" => \A k \in Stages : disk[k].exists

\* C9: in every sequential run the states are visited in the order Fetch,
\* Passage, Correct, Translate, Dialogue, Done; each LLM stage is invoked
\* at most once, with the content of the previous stage's artifact file as
\* its transcript; and at Done all four artifact files exist.
C9_ForwardDataFlow == []ForwardFlow /\ [][ForwardStep]_vars

\* A run that wrote all four artifacts, with three LLM calls, is done.
C9_Witness ==
    /\ pc["A"].at = "done"
    /\ LLMCallsIn("A") = LLMStages
    /\ written["A"] = Stages
    /\ disk["corrected"] = File(<<"x">>)
    /\ disk["translated"] = File(<<" ">>)

(***************************************************************************)
(* C10.  Concurrent runs on one stem.                                      *)
(***************************************************************************)
\* C10: with two interleaved runs an artifact is written over only when
\* both runs found it absent, both invoked the stage (an LLM stage: both
\* sent its request) and both wrote it; the later write replaces what the
\* earlier one left, so the file holds the last writer's text.
C10_RaceOnExistenceCheck ==
    /\ \A p \in Procs, k \in LLMStages : calls[p][k] <= 1
    /\ \A k \in overwritten, p \in Procs :
        /\ ~disk0[p][k].exists
        /\ k \in written[p]
        /\ k \in invoked[p]
        /\ k \in LLMStages => calls[p][k] = 1
    /\ \A k \in Stages :
        disk[k].exists =>
            /\ lastWriter[k] \in Procs
            /\ disk[k].text = out[lastWriter[k]][k].text

\* Both runs requested the correction, the file was written twice, and run
\* A went on with a corrected text that is no longer the one on disk.
C10_Witness ==
    /\ calls["A"]["corrected"] = 1
    /\ calls["B"]["corrected"] = 1
    /\ "corrected" \in overwritten
    /\ out["A"]["corrected"].has
    /\ out["A"]["corrected"].text # disk["corrected"].text
    /\ pc["A"].at = "done"

====
